---- MODULE Spec2Model ----
(***************************************************************************)
(* graph-rag-skills-agent: the Delta-Summary Accumulation layer            *)
(* (DeltaSummarizer, CommunityCompactor), the temporal Neo4j writer, the   *)
(* template registry and the skill-export sync manager, as state machines. *)
(* One specification per subsystem: SpecDSA and SpecSweep (delta store and *)
(* compaction), SpecWriter, SpecRegistry, SpecSync, SpecFiller,            *)
(* SpecMigrator, SpecEmbedder, SpecExporter, SpecProcess.  The graph store *)
(* is modelled by the nodes and properties the Cypher queries of the code  *)
(* read and write.                                                         *)
(***************************************************************************)
EXTENDS Integers, Sequences, FiniteSets, TLC

\* ------------------------------------------------------------------ bounds

\* delta nodes ever created in one behaviour
MaxDeltas == 3
\* the logical clock (one unit = one day) runs from 0 to MaxTime
MaxTime == 1
\* entities and relationships of one TemporalKnowledgeGraph
MaxEnts == 2
MaxRels == 5
\* items of one list whose store write throws
MaxThrowing == 2
\* explicit batch_size arguments are 1..MaxBatch
MaxBatch == 3
\* write_temporal_kg calls in one behaviour
MaxCalls == 2
\* segments of one template handed to the filler or the migrator
MaxSegs == 2
\* tokens of a skill document before the first embedding
MaxDocLen == 2
\* embed_in_skill is not called on a document with more start markers
MaxStarts == 1
\* characters of a label or relationship type name
MaxNameLen == 3
\* entities and relationships of a knowledge graph handed to to_graph_documents
MaxKgItems == 2

\* ------------------------------------------------------- program constants

\* settings.DSA_DELTA_COUNT_THRESHOLD and settings.DSA_DELTA_TOKEN_THRESHOLD
DSA_DELTA_COUNT_THRESHOLD == 5
DSA_DELTA_TOKEN_THRESHOLD == 1000

\* ------------------------------------------------------------- input sets

Communities == {"c1", "c2"}
DeltaIds == 1..MaxDeltas
\* summary_tokens of a stored delta: a short and a long summary
TokenChoices == {1, 600}
\* constructor arguments of CommunityCompactor; 0 stands for None (both falsy)
CountArgs == {0, 1}
TokenArgs == {0, 2}
\* older_than_days arguments of cleanup_compacted_deltas
DayArgs == {0, 1}
\* the callers of the compactor (a scheduler job, an operator, ...)
Procs == {"p1", "p2"}

VARIABLES
    \* feature flags of graphrag_agent.config.settings
    DSA_ENABLED, DSA_COMPACTION_ENABLED,
    \* CommunityCompactor attributes
    delta_count_threshold, delta_token_threshold,
    \* the store's clock, datetime()
    now,
    \* __Community__ nodes: full_content, last_compacted_at, summary_tokens
    community,
    \* __CommunityDelta__ nodes by creation number
    delta,
    \* control state of the two compaction callers
    pc, sel, rows,
    \* the running compact_all() call: its scan and its results list
    sweep,
    \* what the last operation returned, held until the next operation starts
    result,
    \* the graph store as the temporal writer sees it: node ids, and per
    \* (source, type, target) the relationship's atom_t_obs / atom_atomic_facts
    nodes, edges,
    \* update-mode writes each relationship has received since it was last replaced
    updWrites,
    \* the running or returned write_temporal_kg call, and the calls made
    call, calls,
    \* the templates directory: the template.json of each {id}/{version}
    files,
    \* TemplateRegistry._cache
    _cache,
    \* the last registry call and what it returned
    lookup,
    \* __Community__ nodes: level and updated_at (-1 is null)
    level, updated_at,
    \* the sync state file (.skill_sync_state.json)
    sync,
    \* the running or last export command: its arguments, the ids
    \* get_pending_updates returned, the community ids of its pages
    xp,
    \* the last TemplateFiller.fill call: the filler's strict_mode, the
    \* arguments and the FilledContent returned
    filled,
    \* the last TemplateMigrator.compare call and its MigrationReport
    report,
    \* the SKILL.md document the embedder works on, and what the last
    \* extract_from_skill returned
    skill, extracted,
    \* the last GraphRAGExporter.export call made directly and its pages
    exported,
    \* the last DeltaSummarizer.process_deltas call and its return value
    processed,
    \* a name handed to the writer as an entity label or a relationship type,
    \* and the label the query was built with
    labelled,
    \* a TemporalKnowledgeGraph and what its to_graph_documents returned
    documents

dsaVars == <<DSA_ENABLED, DSA_COMPACTION_ENABLED, delta_count_threshold,
             delta_token_threshold, now, community, delta, pc, sel, rows,
             sweep, result>>

cfgVars == <<DSA_ENABLED, DSA_COMPACTION_ENABLED, delta_count_threshold,
             delta_token_threshold>>

writerVars == <<nodes, edges, updWrites, call, calls>>

registryVars == <<files, _cache, lookup>>

syncVars == <<level, updated_at, sync, xp>>

toolVars == <<filled, report, skill, extracted, exported, processed>>

kgVars == <<labelled, documents>>

nonDSA == <<writerVars, registryVars, syncVars, toolVars, kgVars>>
nonWriter == <<dsaVars, registryVars, syncVars, toolVars, kgVars>>
nonRegistry == <<dsaVars, writerVars, syncVars, toolVars, kgVars>>
nonSync == <<dsaVars, writerVars, registryVars, toolVars, kgVars>>
nonTools == <<dsaVars, writerVars, registryVars, syncVars, kgVars>>

vars == <<dsaVars, writerVars, registryVars, syncVars, toolVars, kgVars>>

\* ------------------------------------------------------------ text values

\* A text is a sequence of tokens.
SummaryTok(c) == [k |-> "summary", c |-> c, d |-> 0]
HeaderTok == [k |-> "\n\n[Recent Updates]:\n", c |-> "", d |-> 0]
BulletTok(d) == [k |-> "- ", c |-> "", d |-> d]
DeltaTok(d) == [k |-> "delta", c |-> "", d |-> d]

\* c.summary of a community: set by the community-summary build, never empty
Summary(c) == <<SummaryTok(c)>>

NoDelta == [cid |-> "", tokens |-> 0, created_at |-> 0, status |-> "none",
            compacted_at |-> -1]

\* a delta node exists in the store (created and not DETACH DELETEd)
Exists(d) == delta[d].status \in {"pending", "compacted"}

PendingOf(c) == {d \in DeltaIds : delta[d].cid = c /\ delta[d].status = "pending"}

RECURSIVE SumTokens(_)
SumTokens(S) ==
    IF S = {} THEN 0
    ELSE LET d == CHOOSE x \in S : TRUE
         IN delta[d].tokens + SumTokens(S \ {d})

\* all orders of the set S
RECURSIVE Orders(_)
Orders(S) ==
    IF S = {} THEN {<<>>}
    ELSE UNION {{<<d>> \o r : r \in Orders(S \ {d})} : d \in S}

SortedByCreatedAt(r) ==
    \A i \in 1..Len(r) : \A j \in 1..Len(r) :
        i < j => delta[r[i]].created_at <= delta[r[j]].created_at

\* ------------------------------------------------------------ DeltaSummarizer

\* a query without the status filter
AllDeltasOf(c) ==
    {r \in Orders({d \in DeltaIds : delta[d].cid = c /\ Exists(d)}) :
        SortedByCreatedAt(r)}

\* get_pending_deltas: the possible results of
\*   MATCH (c {id})-[:HAS_DELTA]->(d) WHERE d.status = 'pending'
\*   RETURN ... ORDER BY d.created_at ASC
\* (rows with equal created_at come in any order)
get_pending_deltas(c) ==
    {r \in Orders(PendingOf(c)) : SortedByCreatedAt(r)}

RECURSIVE Bullets(_)
Bullets(r) ==
    IF r = <<>> THEN <<>>
    ELSE <<BulletTok(Head(r))>> \o Bullets(Tail(r))

\* merge_summaries_for_read(base_summary, deltas); every stored delta has a
\* non-empty summary, so delta_texts is one entry per delta
merge_summaries_for_read(base, r) ==
    IF r = <<>> THEN base
    ELSE IF base # <<>> THEN base \o <<HeaderTok>> \o Bullets(r)
    ELSE Bullets(r)

NoSweep == [by |-> "", pendingAt |-> [c \in Communities |-> 0],
            tokensAt |-> [c \in Communities |-> 0],
            selected |-> {}, compacted |-> {}]

\* Return values.  op names the operation; the other fields are those the
\* operation fills: a read fills cid, deltas, text; compact_community fills
\* cid, deltas (the ids it merged) and mid (the deltas of cid stored after its
\* first query); compact_all fills sweep; cleanup_compacted_deltas fills days
\* (its argument).
NoResult == [op |-> "none", cid |-> "", deltas |-> <<>>, text |-> <<>>,
             mid |-> {}, sweep |-> NoSweep, days |-> -1]

\* store_delta(community_id, summary, related_entities, summary_tokens):
\* the delta node as the CREATE writes it
NewDelta(c, tok) ==
    [cid |-> c, tokens |-> tok, created_at |-> now, status |-> "pending",
     compacted_at |-> -1]

\* the number the next created delta gets (ids are fresh: uuid4 suffix)
NextId == Cardinality({d \in DeltaIds : delta[d].status # "none"}) + 1

\* store_delta: an empty summary returns None before the query; a query that
\* throws is caught and returns None; otherwise one pending node is created
StoreDelta(c, tok, emptySummary, queryThrows) ==
    /\ NextId <= MaxDeltas
    /\ delta' = IF emptySummary \/ queryThrows THEN delta
                ELSE [delta EXCEPT ![NextId] = NewDelta(c, tok)]
    /\ result' = NoResult
    /\ UNCHANGED <<cfgVars, now, community, pc, sel, rows, sweep>>

store_delta(c, tok, emptySummary, queryThrows) ==
    /\ StoreDelta(c, tok, emptySummary, queryThrows)
    /\ UNCHANGED nonDSA

\* a read of the effective summary of community c, as in the read path:
\* merge_summaries_for_read(c.full_content, get_pending_deltas(c))
ReadSummary(c) ==
    /\ \E r \in get_pending_deltas(c) :
          result' = [NoResult EXCEPT
                       !.op = "read", !.cid = c, !.deltas = r,
                       !.text = merge_summaries_for_read(community[c].full_content, r)]
    /\ UNCHANGED <<nonDSA, cfgVars, now, community, delta, pc, sel, rows, sweep>>

\* --------------------------------------------------------- CommunityCompactor

\* __init__: self.delta_count_threshold = delta_count_threshold or DEFAULT
ThresholdOr(arg, default) == IF arg = 0 THEN default ELSE arg

PendingCount(c) == Cardinality(PendingOf(c))
PendingTokens(c) == SumTokens(PendingOf(c))

\* a comparison that needs both thresholds crossed
ExceedsBoth(count, tokens) ==
    count > delta_count_threshold /\ tokens > delta_token_threshold

\* a comparison that already fires at the threshold
ReachesThreshold(count, tokens) ==
    count >= delta_count_threshold \/ tokens >= delta_token_threshold

\* the comparison of check_compaction_needed and of compact_all's WHERE
ExceedsThreshold(count, tokens) ==
    count > delta_count_threshold \/ tokens > delta_token_threshold

\* check_compaction_needed(community_id)
check_compaction_needed(c) ==
    IF ~DSA_COMPACTION_ENABLED THEN FALSE
    ELSE ExceedsThreshold(PendingCount(c), PendingTokens(c))

\* a scan without the WHERE on the aggregated count and tokens
RowsWithPending == {c \in Communities : PendingOf(c) # {}}

\* the rows of compact_all's scan query: communities with a pending delta
\* whose aggregated count or tokens exceed a threshold
CompactAllRows ==
    {c \in Communities :
        PendingOf(c) # {} /\ ExceedsThreshold(PendingCount(c), PendingTokens(c))}

\* the set S as a sequence in creation order
RECURSIVE InCreationOrder(_)
InCreationOrder(S) ==
    IF S = {} THEN <<>>
    ELSE LET d == CHOOSE x \in S : \A y \in S : x <= y
         IN <<d>> \o InCreationOrder(S \ {d})

Range(f) == {f[i] : i \in DOMAIN f}

\* base_summary = full_content or base_summary or ""
BaseSummary(c) ==
    IF community[c].full_content # <<>> THEN community[c].full_content
    ELSE Summary(c)

RECURSIVE DeltaToks(_)
DeltaToks(r) ==
    IF r = <<>> THEN <<>>
    ELSE <<DeltaTok(Head(r))>> \o DeltaToks(Tail(r))

\* chain.invoke({base_summary, delta_summaries}): the merged text carries the
\* base and every delta summary handed to the LLM
LLMMerge(base, ids) == base \o DeltaToks(ids)

\* a second query that marks whatever is pending at commit time
MarkAllPending(c, ids) ==
    [d \in DeltaIds |->
        IF delta[d].cid = c /\ delta[d].status = "pending"
        THEN [delta[d] EXCEPT !.status = "compacted", !.compacted_at = now]
        ELSE delta[d]]

\* the second query's delta part:
\*   MATCH (c)-[:HAS_DELTA]->(d) WHERE d.id IN $delta_ids
\*   SET d.status = 'compacted', d.compacted_at = datetime()
MarkCompacted(c, ids) ==
    [d \in DeltaIds |->
        IF delta[d].cid = c /\ Exists(d) /\ d \in Range(ids)
        THEN [delta[d] EXCEPT !.status = "compacted", !.compacted_at = now]
        ELSE delta[d]]

NoSel == [cid |-> "", base |-> <<>>, ids |-> <<>>, next |-> 0]

\* where a compaction caller is when compact_community has returned and
\* the rows left are left: compact_all's loop ends with its last row
Return(p, left) == IF sweep.by = p /\ left # {} THEN "sweep" ELSE "idle"

\* what the caller holds when compact_community has returned res
Returned(p, left, res, sw) ==
    IF sweep.by = p /\ left = {}
    THEN [NoResult EXCEPT !.op = "compact_all", !.sweep = sw]
    ELSE res

\* compact_community, first half: the flag check and the first query, taken
\* to return the community's pending deltas in creation order.
\* Returns None (no second half) when compaction is disabled or nothing is pending.
CompactSelect(p, c) ==
    /\ \/ pc[p] = "idle"
       \/ pc[p] = "sweep" /\ c \in rows[p]
    /\ rows' = [rows EXCEPT ![p] = rows[p] \ {c}]
    /\ IF DSA_COMPACTION_ENABLED /\ PendingOf(c) # {}
       THEN /\ pc' = [pc EXCEPT ![p] = "selected"]
            /\ sel' = [sel EXCEPT ![p] =
                          [cid |-> c, base |-> BaseSummary(c),
                           ids |-> InCreationOrder(PendingOf(c)), next |-> NextId]]
            /\ result' = NoResult
            /\ UNCHANGED sweep
       ELSE /\ pc' = [pc EXCEPT ![p] = Return(p, rows[p] \ {c})]
            /\ result' = Returned(p, rows[p] \ {c}, NoResult, sweep)
            /\ sweep' = IF Return(p, rows[p] \ {c}) = "idle" /\ sweep.by = p
                        THEN NoSweep ELSE sweep
            /\ UNCHANGED sel
    /\ UNCHANGED <<nonDSA, cfgVars, now, community, delta>>

\* compact_community, second half: the LLM merge and the second query, in one
\* transaction.  A throwing chain.invoke or query is caught: nothing changes.
\* summary_tokens = len(merged_summary.split()) * 1.3, kept in tenths.
CompactCommit(p, throws) ==
    /\ pc[p] = "selected"
    /\ pc' = [pc EXCEPT ![p] = Return(p, rows[p])]
    /\ sel' = [sel EXCEPT ![p] = NoSel]
    /\ LET c == sel[p].cid
           merged == LLMMerge(sel[p].base, sel[p].ids)
           done == [sweep EXCEPT !.compacted = @ \cup {c}]
       IN IF throws
          THEN /\ result' = Returned(p, rows[p], NoResult, sweep)
               /\ sweep' = IF sweep.by = p /\ rows[p] = {} THEN NoSweep ELSE sweep
               /\ UNCHANGED <<community, delta>>
          ELSE /\ community' = [community EXCEPT ![c] =
                     [full_content |-> merged, last_compacted_at |-> now,
                      summary_tokens |-> Len(merged) * 13]]
               /\ delta' = MarkCompacted(c, sel[p].ids)
               /\ sweep' = IF sweep.by # p THEN sweep
                           ELSE IF rows[p] = {} THEN NoSweep ELSE done
               /\ result' = Returned(p, rows[p],
                     [NoResult EXCEPT
                        !.op = "compact_community", !.cid = c, !.deltas = sel[p].ids,
                        !.mid = {d \in DeltaIds :
                                   d >= sel[p].next /\ delta[d].cid = c /\ Exists(d)}],
                     done)
    /\ UNCHANGED <<nonDSA, cfgVars, now, rows>>

\* compact_all(), the scan: returns [] when a flag is off or no row is found
CompactAllScan(p) ==
    /\ pc[p] = "idle"
    /\ sweep.by = ""
    /\ LET found == IF DSA_ENABLED /\ DSA_COMPACTION_ENABLED THEN CompactAllRows ELSE {}
           sw == [by |-> p, pendingAt |-> [c \in Communities |-> PendingCount(c)],
                  tokensAt |-> [c \in Communities |-> PendingTokens(c)],
                  selected |-> found, compacted |-> {}]
       IN /\ rows' = [rows EXCEPT ![p] = found]
          /\ pc' = [pc EXCEPT ![p] = IF found = {} THEN "idle" ELSE "sweep"]
          /\ sweep' = IF found = {} THEN NoSweep ELSE sw
          /\ result' = IF found = {}
                       THEN [NoResult EXCEPT !.op = "compact_all", !.sweep = sw]
                       ELSE NoResult
    /\ UNCHANGED <<nonDSA, cfgVars, now, community, delta, sel>>

\* a delete query without the status filter
CleanedAnyStatus(days) ==
    [d \in DeltaIds |->
        IF Exists(d) /\ delta[d].compacted_at < now - days
        THEN [delta[d] EXCEPT !.status = "deleted"]
        ELSE delta[d]]

\* cleanup_compacted_deltas(older_than_days):
\*   MATCH (d {status: 'compacted'})
\*   WHERE d.compacted_at < datetime() - duration({days: $days}) DETACH DELETE d
Cleaned(days) ==
    [d \in DeltaIds |->
        IF delta[d].status = "compacted" /\ delta[d].compacted_at < now - days
        THEN [delta[d] EXCEPT !.status = "deleted"]
        ELSE delta[d]]

cleanup_compacted_deltas(days) ==
    /\ delta' = Cleaned(days)
    /\ result' = [NoResult EXCEPT !.op = "cleanup_compacted_deltas",
                                  !.days = days]
    /\ UNCHANGED <<nonDSA, cfgVars, now, community, pc, sel, rows, sweep>>

\* time passes
Tick ==
    /\ now < MaxTime
    /\ now' = now + 1
    /\ UNCHANGED <<nonDSA, cfgVars, community, delta, pc, sel, rows, sweep, result>>

\* --------------------------------------------------------- Neo4jTemporalWriter

\* Neo4jTemporalWriter.__init__(batch_size: int = 50)
DEFAULT_BATCH_SIZE == 50
BatchSizes == (1..MaxBatch) \cup {DEFAULT_BATCH_SIZE}
Strategies == {"update", "replace"}

\* kg.entities is the first m of these ids
EntityId(i) == IF i % 2 = 1 THEN "a" ELSE "b"

RelKeys == {"a-R->b", "b-R->a"}
Endpoints(k) == {"a", "b"}

\* kg.relationships is the first n of these: TemporalRelationship objects that
\* alternate between the two triples; the second carries no observation
\* (t_obs and atomic_facts default to empty lists)
RelItem(i) ==
    [key |-> IF i % 2 = 1 THEN "a-R->b" ELSE "b-R->a",
     t_obs |-> IF i = 2 THEN <<>> ELSE <<i>>,
     atomic_facts |-> IF i = 2 THEN <<>> ELSE <<i>>]

NoEdge == [exists |-> FALSE, t_obs |-> <<>>, atomic_facts |-> <<>>]

\* the sets of at most MaxThrowing positions among 1..n
Throwing(n) == {B \in SUBSET (1..n) : Cardinality(B) <= MaxThrowing}

\* the loop state of a batch write: the counter `written`, the positions
\* whose write returned (in order), the positions logged as failed in a retry
NoProgress == [written |-> 0, log |-> <<>>, dropped |-> <<>>]

\* try: for item in batch: write(item); written += 1  -- up to the first throw
RECURSIVE TryBatch(_, _, _)
TryBatch(batch, bad, acc) ==
    IF batch = <<>> \/ Head(batch) \in bad THEN acc
    ELSE TryBatch(Tail(batch), bad,
                  [acc EXCEPT !.written = @ + 1, !.log = Append(@, Head(batch))])

\* for item in slice: try: write(item); written += 1  except: log, skip
RECURSIVE RetryEach(_, _, _)
RetryEach(slice, bad, acc) ==
    IF slice = <<>> THEN acc
    ELSE RetryEach(Tail(slice), bad,
                   IF Head(slice) \in bad
                   THEN [acc EXCEPT !.dropped = Append(@, Head(slice))]
                   ELSE [acc EXCEPT !.written = @ + 1, !.log = Append(@, Head(slice))])

\* batch[written % self.batch_size:]
RetrySlice(batch, bs, written) == SubSeq(batch, (written % bs) + 1, Len(batch))

\* for i in range(0, len(items), batch_size): batch = items[i : i + batch_size] ...
RECURSIVE BatchLoop(_, _, _, _, _)
BatchLoop(n, bs, bad, i, acc) ==
    IF i >= n THEN acc
    ELSE LET size == IF n - i < bs THEN n - i ELSE bs
             batch == [j \in 1..size |-> i + j]
             tried == TryBatch(batch, bad, acc)
             next == IF \E j \in 1..size : batch[j] \in bad
                     THEN RetryEach(RetrySlice(batch, bs, tried.written), bad, tried)
                     ELSE tried
         IN BatchLoop(n, bs, bad, i + bs, next)

_batch_write_entities(m, bs, bad) == BatchLoop(m, bs, bad, 0, NoProgress)

\* a batch write whose first exception ends the whole write
AbortOnError(n, bs, bad) ==
    LET first == {i \in 1..n : i \in bad /\ \A j \in 1..(i - 1) : j \notin bad}
    IN IF first = {} THEN BatchLoop(n, bs, {}, 0, NoProgress)
       ELSE LET f == CHOOSE i \in first : TRUE
            IN [BatchLoop(f - 1, bs, {}, 0, NoProgress) EXCEPT !.dropped = <<f>>]

_batch_write_relationships(n, bs, bad) == BatchLoop(n, bs, bad, 0, NoProgress)

\* _write_entity: MERGE (n:`label` {id: $id})
RECURSIVE WriteEntities(_, _)
WriteEntities(ns, log) ==
    IF log = <<>> THEN ns
    ELSE WriteEntities(ns \cup {EntityId(Head(log))}, Tail(log))

\* _create_replace_relationship_query: SET r.atom_t_obs = $t_obs ...
_create_replace_relationship_query(r, item) ==
    [exists |-> TRUE, t_obs |-> item.t_obs, atomic_facts |-> item.atomic_facts]

\* an update query that overwrites the lists
OverwriteLists(r, item) ==
    [exists |-> TRUE, t_obs |-> item.t_obs, atomic_facts |-> item.atomic_facts]

\* _create_update_relationship_query:
\*   SET r.atom_t_obs = COALESCE(r.atom_t_obs, []) + $t_obs ...
_create_update_relationship_query(r, item) ==
    [exists |-> TRUE, t_obs |-> r.t_obs \o item.t_obs,
     atomic_facts |-> r.atomic_facts \o item.atomic_facts]

\* _write_relationship: MATCH (s {id: $source_id}), (t {id: $target_id})
\* finds nothing (and the query does nothing) unless both nodes exist
_write_relationship(ns, es, item, strategy) ==
    IF ~(Endpoints(item.key) \subseteq ns) THEN es
    ELSE [es EXCEPT ![item.key] =
             IF strategy = "replace"
             THEN _create_replace_relationship_query(@, item)
             ELSE _create_update_relationship_query(@, item)]

RECURSIVE WriteRelationships(_, _, _, _)
WriteRelationships(ns, es, log, strategy) ==
    IF log = <<>> THEN es
    ELSE WriteRelationships(ns, _write_relationship(ns, es, RelItem(Head(log)), strategy),
                            Tail(log), strategy)

\* the update-mode write counters after the writes of log
RECURSIVE CountWrites(_, _, _)
CountWrites(uw, log, strategy) ==
    IF log = <<>> THEN uw
    ELSE CountWrites([uw EXCEPT ![RelItem(Head(log)).key] =
                         IF strategy = "update" THEN @ + 1 ELSE 0],
                     Tail(log), strategy)

NoCall == [op |-> "none", strategy |-> "", batch_size |-> 0,
           m |-> 0, badE |-> {}, n |-> 0, badR |-> {},
           ents |-> NoProgress, rels |-> NoProgress]

\* write_temporal_kg(kg, merge_strategy) on a writer built with batch_size bs:
\* kg has m entities and n relationships; the store write of the entities at
\* positions badE and of the relationships at positions badR throws
write_temporal_kg(m, badE, n, badR, bs, strategy) ==
    /\ call.op = "none"
    /\ calls < MaxCalls
    /\ calls' = calls + 1
    /\ LET e == IF m = 0 /\ n = 0 THEN NoProgress ELSE _batch_write_entities(m, bs, badE)
           r == IF m = 0 /\ n = 0 THEN NoProgress ELSE _batch_write_relationships(n, bs, badR)
           ns == WriteEntities(nodes, e.log)
       IN /\ nodes' = ns
          /\ edges' = WriteRelationships(ns, edges, r.log, strategy)
          /\ updWrites' = CountWrites(updWrites, r.log, strategy)
          /\ call' = [op |-> "write", strategy |-> strategy, batch_size |-> bs,
                      m |-> m, badE |-> badE, n |-> n, badR |-> badR,
                      ents |-> e, rels |-> r]
    /\ UNCHANGED nonWriter

\* the caller takes the returned counts
WriteReturn ==
    /\ call.op = "write"
    /\ call' = NoCall
    /\ UNCHANGED <<nonWriter, nodes, edges, updWrites, calls>>

InitWriter ==
    /\ nodes = {}
    /\ edges = [k \in RelKeys |-> NoEdge]
    /\ updWrites = [k \in RelKeys |-> 0]
    /\ call = NoCall
    /\ calls = 0

\* ------------------------------------------------------------ TemplateRegistry

TemplateIds == {"t1"}
\* version strings, as their dot-separated parts, each a string of digits:
\* "1.9.0", "1.10.0", "2.0.0"
Versions == { << <<1>>, <<9>>, <<0>> >>, << <<1>>, <<1, 0>>, <<0>> >>,
              << <<2>>, <<0>>, <<0>> >> }
Contents == {"A", "B"}

\* Template objects, and None
Templates == [id : TemplateIds, version : Versions, content : Contents]
NoTemplate == [id |-> "", version |-> <<>>, content |-> ""]
NoFile == ""

\* cache keys: f"{template_id}@{version}" is <<id, version>>, a bare
\* template_id is <<id>>
CacheKeys == {<<i, v>> : i \in TemplateIds, v \in Versions} \cup {<<i>> : i \in TemplateIds}

\* int(p) of a string of digits
RECURSIVE ToInt(_)
ToInt(digits) ==
    IF digits = <<>> THEN 0
    ELSE 10 * ToInt(SubSeq(digits, 1, Len(digits) - 1)) + digits[Len(digits)]

\* version_key: tuple(int(p) for p in v.split("."))
version_key(v) == [i \in 1..Len(v) |-> ToInt(v[i])]

\* Python's tuple order
RECURSIVE TupleLess(_, _)
TupleLess(a, b) ==
    IF a = <<>> THEN b # <<>>
    ELSE IF b = <<>> THEN FALSE
    ELSE IF Head(a) # Head(b) THEN Head(a) < Head(b)
    ELSE TupleLess(Tail(a), Tail(b))

\* the version directories of id that hold a template.json
VersionsOnDisk(i) == {v \in Versions : files[<<i, v>>] # NoFile}

\* _get_sorted_versions: sorted(versions, key=version_key); the versions
\* modelled have distinct keys, so the order is unique
_get_sorted_versions(i) ==
    CHOOSE r \in Orders(VersionsOnDisk(i)) :
        \A j \in 1..Len(r) : \A k \in 1..Len(r) :
            j < k => TupleLess(version_key(r[j]), version_key(r[k]))

\* the template.json at {id}/{version}, parsed by Template.from_dict
Load(i, v) == [id |-> i, version |-> v, content |-> files[<<i, v>>]]

\* cache_key = f"{template_id}@{version}" if version else template_id
CacheKey(i, v) == IF v # <<>> THEN <<i, v>> ELSE <<i>>

NoLookup == [op |-> "none", id |-> "", version |-> <<>>, ret |-> NoTemplate,
             ok |-> FALSE]

\* get_template(template_id, version); version <<>> stands for None
get_template(i, v) ==
    LET key == CacheKey(i, v)
        sorted == _get_sorted_versions(i)
        dir == IF v # <<>> THEN v ELSE sorted[Len(sorted)]
        found == /\ _cache[key] = NoTemplate
                 /\ VersionsOnDisk(i) # {}
                 /\ (v # <<>> => files[<<i, v>>] # NoFile)
        ret == IF _cache[key] # NoTemplate THEN _cache[key]
               ELSE IF found THEN Load(i, dir)
               ELSE NoTemplate
    IN /\ _cache' = IF found THEN [_cache EXCEPT ![key] = Load(i, dir)] ELSE _cache
       /\ lookup' = [op |-> "get", id |-> i, version |-> v, ret |-> ret,
                     ok |-> ret # NoTemplate]
       /\ UNCHANGED <<nonRegistry, files>>

\* register_template(template): an invalid template raises ValueError
register_template(t, valid) ==
    /\ IF valid
       THEN /\ files' = [files EXCEPT ![<<t.id, t.version>>] = t.content]
            /\ _cache' = [_cache EXCEPT ![<<t.id, t.version>>] = t]
       ELSE UNCHANGED <<files, _cache>>
    /\ lookup' = [op |-> "register", id |-> t.id, version |-> t.version,
                  ret |-> NoTemplate, ok |-> valid]
    /\ UNCHANGED nonRegistry

\* delete_template(template_id, version)
delete_template(i, v) ==
    /\ IF files[<<i, v>>] # NoFile
       THEN /\ files' = [files EXCEPT ![<<i, v>>] = NoFile]
            /\ _cache' = [_cache EXCEPT ![<<i, v>>] = NoTemplate]
       ELSE UNCHANGED <<files, _cache>>
    /\ lookup' = [op |-> "delete", id |-> i, version |-> v, ret |-> NoTemplate,
                  ok |-> files[<<i, v>>] # NoFile]
    /\ UNCHANGED nonRegistry

\* clear_cache()
clear_cache ==
    /\ _cache' = [k \in CacheKeys |-> NoTemplate]
    /\ lookup' = [NoLookup EXCEPT !.op = "clear_cache"]
    /\ UNCHANGED <<nonRegistry, files>>

InitRegistry ==
    /\ files = [k \in TemplateIds \X Versions |-> NoFile]
    /\ _cache = [k \in CacheKeys |-> NoTemplate]
    /\ lookup = NoLookup

NextRegistry ==
    \/ \E t \in Templates, valid \in BOOLEAN : register_template(t, valid)
    \/ \E i \in TemplateIds, v \in Versions \cup {<<>>} : get_template(i, v)
    \/ \E i \in TemplateIds, v \in Versions : delete_template(i, v)
    \/ clear_cache

\* ------------------------------------- GraphRAGSkillSyncManager, export command

Levels == {0, 1}
\* --max-communities arguments; 0 stands for None (both falsy)
MaxCommunitiesArgs == {0, 1}
Modes == {"full", "delta"}

\* the communities by c.weight, heaviest first
ByWeight == <<"c1", "c2">>

NoSync == [last_export_ts |-> -1, community_ids |-> {}, last_export_mode |-> "",
           last_export_level |-> -1]

\* _get_all_community_ids(level)
_get_all_community_ids(l) == {c \in Communities : level[c] = l}

\* get_changed_communities_since(timestamp, level): communities updated after
\* the timestamp, communities with a pending delta (if DSA_ENABLED), and
\* communities not in the exported id set
get_changed_communities_since(ts, l) ==
    {c \in Communities : level[c] = l /\ updated_at[c] # -1 /\ updated_at[c] > ts}
    \cup (IF DSA_ENABLED
          THEN {c \in Communities : level[c] = l /\ PendingOf(c) # {}}
          ELSE {})
    \cup (_get_all_community_ids(l) \ sync.community_ids)

\* get_pending_updates(level)
get_pending_updates(l) ==
    IF sync.last_export_ts = -1 THEN _get_all_community_ids(l)
    ELSE get_changed_communities_since(sync.last_export_ts, l)

\* export_communities(level): WHERE c.level = $level ORDER BY c.weight DESC
\* [LIMIT max_communities]; the ids of the communities returned
export_communities(l, maxc) ==
    LET atLevel == SelectSeq(ByWeight, LAMBDA c : level[c] = l)
        kept == IF maxc # 0 /\ maxc < Len(atLevel) THEN SubSeq(atLevel, 1, maxc)
                ELSE atLevel
    IN Range(kept)

\* _export_communities_by_ids: WHERE c.id IN $community_ids AND c.level = $level
_export_communities_by_ids(ids, l) == {c \in ids : level[c] = l}

\* GraphRAGExporter.export: the community ids of the pages
export(mode, l, changed, maxc) ==
    IF mode = "delta" /\ changed # {} THEN _export_communities_by_ids(changed, l)
    ELSE export_communities(l, maxc)

\* the export command: its arguments, the ids get_pending_updates returned
\* and the community ids of its pages; afterFull: the command before it was a
\* full export of the same level without a limit, the sync state was not
\* reset and the graph is as that export found it; untouched: the graph is
\* as this command found it; during: the communities rebuilt after the
\* export read the graph and before mark_synced
NoExport == [pc |-> "idle", mode |-> "", level |-> -1, max |-> 0,
             changed |-> {}, pages |-> {}, afterFull |-> FALSE,
             untouched |-> FALSE, during |-> {}]

\* export_command up to the export: in delta mode get_pending_updates, and
\* the early return when nothing is pending; then exporter.export
ExportStart(mode, l, maxc) ==
    /\ xp.pc = "idle"
    /\ LET changed == IF mode = "delta" THEN get_pending_updates(l) ELSE {}
           early == mode = "delta" /\ changed = {}
       IN xp' = [pc |-> IF early THEN "idle" ELSE "exported",
                 mode |-> mode, level |-> l, max |-> maxc,
                 changed |-> changed,
                 pages |-> IF early THEN {} ELSE export(mode, l, changed, maxc),
                 afterFull |-> /\ xp.mode = "full" /\ xp.level = l
                               /\ xp.max = 0 /\ xp.untouched,
                 untouched |-> TRUE, during |-> {}]
    /\ UNCHANGED <<nonSync, level, updated_at, sync>>

\* mark_synced(community_ids, export_mode, level), the end of export_command
\* a mark_synced that replaces the tracked ids in either mode
ReplaceTracked(export_mode, community_ids) == community_ids

\* the tracked ids mark_synced writes: a full export replaces them, a delta
\* export adds to those of the state the manager loaded
TrackedIds(export_mode, community_ids) ==
    IF export_mode = "full" THEN community_ids
    ELSE sync.community_ids \cup community_ids

mark_synced ==
    /\ xp.pc = "exported"
    /\ sync' = [last_export_ts |-> now,
                community_ids |-> TrackedIds(xp.mode, xp.pages),
                last_export_mode |-> xp.mode,
                last_export_level |-> xp.level]
    /\ xp' = [xp EXCEPT !.pc = "idle"]
    /\ UNCHANGED <<nonSync, level, updated_at>>

\* reset_state()
reset_state ==
    /\ xp.pc = "idle"
    /\ sync' = NoSync
    /\ xp' = NoExport
    /\ UNCHANGED <<nonSync, level, updated_at>>

\* a community's summary is rebuilt: c.updated_at = datetime()
UpdateCommunity(c) ==
    /\ updated_at' = [updated_at EXCEPT ![c] = now]
    /\ xp' = [xp EXCEPT !.untouched = FALSE,
                        !.during = IF xp.pc = "exported" THEN @ \cup {c} ELSE @]
    /\ UNCHANGED <<nonSync, level, sync>>

\* store_delta while the exporter is at work or at rest
StoreDeltaDuringSync(c, tok) ==
    /\ StoreDelta(c, tok, FALSE, FALSE)
    /\ xp' = [xp EXCEPT !.untouched = FALSE]
    /\ UNCHANGED <<writerVars, registryVars, toolVars, kgVars, level, updated_at,
                   sync>>

InitSync ==
    /\ level = [c \in Communities |-> 0]
    /\ updated_at = [c \in Communities |-> -1]
    /\ sync = NoSync
    /\ xp = NoExport

NextSync ==
    \/ \E mode \in Modes, l \in Levels, maxc \in MaxCommunitiesArgs :
          ExportStart(mode, l, maxc)
    \/ mark_synced
    \/ reset_state
    \/ \E c \in Communities : UpdateCommunity(c)
    \/ \E c \in Communities : StoreDeltaDuringSync(c, 1)
    \/ Tick

\* -------------------------------------------------------------- TemplateFiller

SegKeys == 1..MaxSegs

\* template.segments as the filler reads it: key and required of each segment
FillSegments ==
    {r \in UNION {[1..n -> [key : SegKeys, required : BOOLEAN]] : n \in 0..MaxSegs} :
        \A i \in DOMAIN r : \A j \in DOMAIN r : i # j => r[i].key # r[j].key}

\* raw_content.get(key): None, a value _fill_segment wraps, or a value on
\* which _fill_segment raises (a "map" transform given a list, a "filter"
\* transform with a pattern that does not compile)
RawKinds == {"none", "value", "raises"}

NoFill == [op |-> "none", strict_mode |-> FALSE, template |-> <<>>,
           raw_content |-> [k \in SegKeys |-> "none"], status |-> "",
           segments |-> {}, missing_required |-> <<>>, warnings |-> <<>>]

\* the loop of fill over template.segments; acc holds segments,
\* missing_required and warnings
RECURSIVE FillLoop(_, _, _)
FillLoop(segs, raw, acc) ==
    IF segs = <<>> THEN acc
    ELSE LET s == Head(segs)
             step ==
               IF raw[s.key] = "none"
               THEN IF s.required
                    THEN [acc EXCEPT
                            !.missing_required = Append(@, s.key),
                            !.warnings = Append(@, [kind |-> "missing", key |-> s.key])]
                    ELSE acc
               ELSE IF raw[s.key] = "value"
               THEN [acc EXCEPT !.segments = @ \cup {s.key}]
               ELSE [acc EXCEPT
                       !.warnings = Append(@, [kind |-> "failed", key |-> s.key]),
                       !.missing_required =
                           IF s.required THEN Append(@, s.key) ELSE @]
         IN FillLoop(Tail(segs), raw, step)

\* "Determine status" of fill
FillStatus(acc, strict) ==
    IF acc.missing_required # <<>> THEN "partial"
    ELSE IF acc.warnings # <<>> /\ strict THEN "failed"
    ELSE "complete"

\* TemplateFiller(strict_mode).fill(template, raw_content)
fill(strict, template, raw) ==
    /\ LET acc == FillLoop(template, raw,
                      [segments |-> {}, missing_required |-> <<>>, warnings |-> <<>>])
       IN filled' = [op |-> "fill", strict_mode |-> strict, template |-> template,
                     raw_content |-> raw, status |-> FillStatus(acc, strict),
                     segments |-> acc.segments,
                     missing_required |-> acc.missing_required,
                     warnings |-> acc.warnings]
    /\ UNCHANGED <<nonTools, report, skill, extracted, exported, processed>>

\* ------------------------------------------------------------ TemplateMigrator

Titles == {"T", "U"}

\* old_template.segments and new_template.segments: key, title and required
\* of each segment (title stands for the compared fields other than required)
MigrSegments ==
    {r \in UNION {[1..n -> [key : SegKeys, title : Titles, required : BOOLEAN]] :
                     n \in 0..MaxSegs} :
        \A i \in DOMAIN r : \A j \in DOMAIN r : i # j => r[i].key # r[j].key}

Keys(segs) == {segs[i].key : i \in DOMAIN segs}

\* Template.get_segment(key)
get_segment(segs, key) ==
    segs[CHOOSE i \in DOMAIN segs : segs[i].key = key /\
                                    \A j \in DOMAIN segs : segs[j].key = key => i <= j]

\* _compare_segments: the names of the fields that differ
_compare_segments(o, n) ==
    (IF o.title # n.title THEN {"title"} ELSE {})
    \cup (IF o.required # n.required THEN {"required"} ELSE {})

NoReport == [op |-> "none", old |-> <<>>, new |-> <<>>, removed |-> {},
             added |-> {}, modified |-> {}, is_breaking |-> FALSE,
             compatibility_notes |-> {}]

\* TemplateMigrator.compare(old_template, new_template); the notes are kept
\* as a set of [note, key]
compare(old, new) ==
    /\ LET removed_keys == Keys(old) \ Keys(new)
           added_keys == Keys(new) \ Keys(old)
           common_keys == Keys(old) \cap Keys(new)
           modified == {k \in common_keys :
                          _compare_segments(get_segment(old, k), get_segment(new, k)) # {}}
           breaking == \E k \in removed_keys : get_segment(old, k).required
           notes ==
              {[note |-> "BREAKING: required segment removed", key |-> k] :
                   k \in {x \in removed_keys : get_segment(old, x).required}}
              \cup {[note |-> "new required segment", key |-> k] :
                   k \in {x \in added_keys : get_segment(new, x).required}}
              \cup {[note |-> "is now required", key |-> k] :
                   k \in {x \in modified :
                            /\ "required" \in _compare_segments(get_segment(old, x),
                                                                get_segment(new, x))
                            /\ get_segment(new, x).required}}
       IN report' = [op |-> "compare", old |-> old, new |-> new,
                     removed |-> removed_keys, added |-> added_keys,
                     modified |-> modified, is_breaking |-> breaking,
                     compatibility_notes |-> notes]
    /\ UNCHANGED <<nonTools, filled, skill, extracted, exported, processed>>

\* ------------------------------------------------------------- GraphRAGExporter

\* ExportConfig.summary_field
SummaryFields == {"full_content", "summary"}

\* content = record.get(summary_field) or record.get("summary") or ""
ContentOf(c, field) ==
    IF field = "full_content" /\ community[c].full_content # <<>>
    THEN community[c].full_content
    ELSE Summary(c)

\* "\n\n[Recent Updates]:\n" + "\n".join(delta_summaries)
DeltaContent(r) == <<HeaderTok>> \o DeltaToks(r)

NoPage == [content |-> <<>>, has_pending_deltas |-> FALSE, delta_count |-> -1,
           base |-> <<>>, pending |-> {}]

\* a community of export_communities; r is delta_summaries, the pending
\* deltas as collect(d) returned them.  base and pending record what the
\* query found; delta_count -1 stands for a page without that key.
FullPage(c, r, include, field) ==
    LET appended == include /\ r # <<>>
    IN [content |-> ContentOf(c, field) \o (IF appended THEN DeltaContent(r) ELSE <<>>),
        has_pending_deltas |-> appended,
        delta_count |-> IF appended THEN Len(r) ELSE -1,
        base |-> ContentOf(c, field), pending |-> PendingOf(c)]

\* a community of _export_communities_by_ids
ByIdsPage(c, r, include, field) ==
    [content |-> ContentOf(c, field)
                 \o (IF include /\ r # <<>> THEN DeltaContent(r) ELSE <<>>),
     has_pending_deltas |-> FALSE, delta_count |-> -1,
     base |-> ContentOf(c, field), pending |-> PendingOf(c)]

NoExported == [op |-> "none", mode |-> "", level |-> -1, changed_ids |-> {},
               include_delta_summaries |-> FALSE, summary_field |-> "",
               ids |-> {}, pages |-> [c \in Communities |-> NoPage]]

\* what collect(d) may return for each community: its pending deltas in any order
CollectedDeltas ==
    {[c \in Communities |-> IF c = "c1" THEN r1 ELSE r2] :
        r1 \in Orders(PendingOf("c1")), r2 \in Orders(PendingOf("c2"))}

\* GraphRAGExporter(graph, ExportConfig(include_delta_summaries, summary_field))
\*   .export(mode, level, changed_community_ids)
\* called directly; the community pages of the ExportResult
ExportCall(mode, l, changed, include, field) ==
    /\ exported.op = "none"
    /\ \E r \in CollectedDeltas :
          LET byIds == mode = "delta" /\ changed # {}
              ids == export(mode, l, changed, 0)
          IN exported' =
               [op |-> "export", mode |-> mode, level |-> l, changed_ids |-> changed,
                include_delta_summaries |-> include, summary_field |-> field,
                ids |-> ids,
                pages |-> [c \in Communities |->
                             IF c \notin ids THEN NoPage
                             ELSE IF byIds THEN ByIdsPage(c, r[c], include, field)
                             ELSE FullPage(c, r[c], include, field)]]
    /\ UNCHANGED <<nonTools, filled, report, skill, extracted, processed>>

\* the caller is done with the ExportResult
ExportReturn ==
    /\ exported.op = "export"
    /\ exported' = NoExported
    /\ UNCHANGED <<nonTools, filled, report, skill, extracted, processed>>

\* ------------------------------------------------ DeltaSummarizer.process_deltas

\* what happens to one community of targets: collect_delta_info raises,
\* returns no entities; generate_delta_summary catches an LLM error or gets
\* an empty summary (both return summary ""); store_delta's query raises
\* (caught, returns None); or the delta is stored
Outcomes == {"collect_raises", "no_entities", "llm_raises", "empty_summary",
             "store_raises", "stored"}

\* targets: the community ids of the dict, in iteration order
TargetLists == UNION {Orders(S) : S \in SUBSET Communities}

NoProcessed == [op |-> "none", targets |-> <<>>, outcome |-> <<>>, records |-> <<>>]

\* the id the next created delta gets in store d
NextIdIn(d) == Cardinality({x \in DeltaIds : d[x].status # "none"}) + 1

\* the loop of process_deltas over targets.items(); acc holds the store's
\* deltas and results
RECURSIVE ProcessLoop(_, _, _, _)
ProcessLoop(targets, outcome, toks, acc) ==
    IF targets = <<>> THEN acc
    ELSE LET c == Head(targets)
             id == NextIdIn(acc.delta)
             step ==
               IF Head(outcome) = "stored"
               THEN [delta |-> [acc.delta EXCEPT ![id] = NewDelta(c, Head(toks))],
                     records |-> Append(acc.records,
                                   [delta_id |-> id, community_id |-> c,
                                    summary_tokens |-> Head(toks)])]
               ELSE acc
         IN ProcessLoop(Tail(targets), Tail(outcome), Tail(toks), step)

\* a loop that gives up at the first community that fails
RECURSIVE StopAtFirstFailure(_, _, _, _)
StopAtFirstFailure(targets, outcome, toks, acc) ==
    IF targets = <<>> \/ Head(outcome) # "stored" THEN acc
    ELSE LET c == Head(targets)
             id == NextIdIn(acc.delta)
         IN StopAtFirstFailure(Tail(targets), Tail(outcome), Tail(toks),
               [delta |-> [acc.delta EXCEPT ![id] = NewDelta(c, Head(toks))],
                records |-> Append(acc.records,
                              [delta_id |-> id, community_id |-> c,
                               summary_tokens |-> Head(toks)])])

\* the for loop of process_deltas
ProcessTargets(targets, outcome, toks, acc) ==
    ProcessLoop(targets, outcome, toks, acc)

\* process_deltas(targets): [] when DSA is disabled or targets is empty
process_deltas(targets, outcome, toks) ==
    /\ Len(outcome) = Len(targets) /\ Len(toks) = Len(targets)
    /\ NextId + Len(targets) - 1 <= MaxDeltas
    /\ LET start == [delta |-> delta, records |-> <<>>]
           done == IF ~DSA_ENABLED \/ targets = <<>> THEN start
                   ELSE ProcessTargets(targets, outcome, toks, start)
       IN /\ delta' = done.delta
          /\ processed' = [op |-> "process_deltas", targets |-> targets,
                           outcome |-> outcome, records |-> done.records]
    /\ result' = NoResult
    /\ UNCHANGED <<cfgVars, now, community, pc, sel, rows, sweep>>
    /\ UNCHANGED <<writerVars, registryVars, syncVars, kgVars>>
    /\ UNCHANGED <<filled, report, skill, extracted, exported>>

\* ------------------------------------------------------------ TemplateEmbedder

\* A text is a sequence of tokens.  "S" is a match of the start pattern
\* without its trailing blanks (<!-- TEMPLATE_META:), "E" is the end marker
\* (-->), "{" "}" are braces, "Q" is a double quote, "B" a backslash, " " and
\* "\n" are blanks, and every other token is text the scanner passes over.
Blanks == {" ", "\n"}
DocChars == {"S", "E", "{", "}", "Q", "\n", "x"}

\* the documents handed to the first embed_in_skill call
Docs == UNION {[1..n -> DocChars] : n \in 0..MaxDocLen}

\* None, for an optional string
NoneStr == <<"None">>

\* a string is empty (or None) where Python tests its truth
Falsy(s) == s = NoneStr \/ s = <<>>

SegDescriptions == {NoneStr, <<>>, <<"x">>}
EmbedSegments ==
    {<<>>} \cup {<<[key |-> <<"k">>, title |-> <<"T">>, description |-> d,
                    required |-> d # NoneStr]>> : d \in SegDescriptions}
SkillTemplateIds == {<<"a">>, <<"b">>}
\* template a has no name; the name of b holds a quote, a brace, a backslash
TemplateName(i) == IF i = <<"a">> THEN NoneStr ELSE <<"Q", "}", "B">>
SkillTemplates ==
    {[found |-> TRUE, id |-> i, version |-> <<"1">>, segments |-> g,
      name |-> TemplateName(i), description |-> NoneStr] :
        i \in SkillTemplateIds, g \in EmbedSegments}
NoSkillTemplate ==
    [found |-> FALSE, id |-> NoneStr, version |-> NoneStr, segments |-> <<>>,
     name |-> NoneStr, description |-> NoneStr]

identifier(t) == t.id \o <<"@">> \o t.version

\* Segment.to_dict: a falsy description or required is left out; a key left
\* out reads as None (description) and FALSE (required)
to_dict(s) ==
    [key |-> s.key, title |-> s.title,
     description |-> IF Falsy(s.description) THEN NoneStr ELSE s.description,
     required |-> s.required]

\* Segment.from_dict: a missing description is None, a missing required False
from_dict(d) ==
    [key |-> d.key, title |-> d.title, description |-> d.description,
     required |-> d.required]

_build_metadata(t, include_segments) ==
    [id |-> t.id, version |-> t.version, identifier |-> identifier(t),
     name |-> IF Falsy(t.name) THEN NoneStr ELSE t.name,
     description |-> IF Falsy(t.description) THEN NoneStr ELSE t.description,
     has_segments |-> include_segments /\ t.segments # <<>>,
     segments |-> IF include_segments /\ t.segments # <<>>
                  THEN [i \in DOMAIN t.segments |-> to_dict(t.segments[i])]
                  ELSE <<>>]

\* json.dumps of a string: quotes and backslashes are escaped
RECURSIVE Escape(_)
Escape(s) ==
    IF s = <<>> THEN <<>>
    ELSE (IF Head(s) \in {"Q", "B"} THEN <<"B", Head(s)>> ELSE <<Head(s)>>)
         \o Escape(Tail(s))

RECURSIVE Join(_)
Join(items) ==
    IF items = <<>> THEN <<>>
    ELSE IF Len(items) = 1 THEN items[1]
    ELSE items[1] \o <<",">> \o Join(Tail(items))

\* json.dumps(metadata, sort_keys=True, separators=(",", ":")): the pairs a
\* dictionary holds, keys sorted
Dumps(m) ==
    LET Str(s) == <<"Q">> \o Escape(s) \o <<"Q">>
        Pair(k, v) == Str(<<k>>) \o <<":">> \o v
        DumpsSegment(d) ==
            <<"{">>
            \o Join((IF d.description = NoneStr THEN <<>>
                     ELSE <<Pair("description", Str(d.description))>>)
                    \o <<Pair("key", Str(d.key))>>
                    \o (IF d.required THEN <<Pair("required", <<"true">>)>>
                        ELSE <<>>)
                    \o <<Pair("title", Str(d.title))>>)
            \o <<"}">>
    IN  <<"{">>
        \o Join((IF m.description = NoneStr THEN <<>>
                 ELSE <<Pair("description", Str(m.description))>>)
                \o <<Pair("id", Str(m.id))>>
                \o <<Pair("identifier", Str(m.identifier))>>
                \o (IF m.name = NoneStr THEN <<>>
                    ELSE <<Pair("name", Str(m.name))>>)
                \o (IF m.has_segments
                    THEN <<Pair("segments",
                                <<"[">>
                                \o Join([i \in DOMAIN m.segments |->
                                           DumpsSegment(m.segments[i])])
                                \o <<"]">>)>>
                    ELSE <<>>)
                \o <<Pair("version", Str(m.version))>>)
        \o <<"}">>

\* json.loads: the dictionary whose dump the text is.  A text that is no
\* dump of a metadata dictionary is either no JSON or a JSON value without
\* id and version; extract_from_skill answers None to both, as it does to
\* the dictionary without an id that stands for them here.
Loads(json) ==
    LET MetaDicts ==
            {_build_metadata(t, i) : t \in SkillTemplates, i \in BOOLEAN}
        JSONDecodeError ==
            [_build_metadata(NoSkillTemplate, FALSE) EXCEPT !.id = <<>>]
    IN  IF \E m \in MetaDicts : Dumps(m) = json
        THEN CHOOSE m \in MetaDicts : Dumps(m) = json
        ELSE JSONDecodeError

\* the position of the first match of _META_START_PATTERN, 0 without one
RECURSIVE SearchStart(_, _)
SearchStart(text, i) ==
    IF i > Len(text) THEN 0
    ELSE IF text[i] = "S" THEN i
    ELSE SearchStart(text, i + 1)

\* the first position from i on that holds no blank
RECURSIVE SkipBlanks(_, _)
SkipBlanks(text, i) ==
    IF i <= Len(text) /\ text[i] \in Blanks THEN SkipBlanks(text, i + 1)
    ELSE i

\* one pass of the loop body of _find_json_in_comment on the character at
\* position i; json_end is the position of the brace that brought the depth
\* back to zero (0 so far without one)
LoopBody(st, char, i) ==
    IF st.escape_next THEN [st EXCEPT !.escape_next = FALSE]
    ELSE IF char = "B" THEN [st EXCEPT !.escape_next = TRUE]
    ELSE IF char = "Q" THEN [st EXCEPT !.in_string = ~@]
    ELSE IF st.in_string THEN st
    ELSE IF char = "{" THEN [st EXCEPT !.brace_count = @ + 1]
    ELSE IF char = "}"
         THEN [st EXCEPT !.brace_count = @ - 1,
                         !.json_end = IF st.brace_count - 1 = 0 THEN i ELSE 0]
    ELSE st

\* for i, char in enumerate(text[lo:hi + 1], start=lo): the passes over a
\* range are the passes over its first half and, unless one of them left the
\* loop (break), those over its second
RECURSIVE ForLoop(_, _, _, _)
ForLoop(text, lo, hi, st) ==
    IF lo > hi THEN st
    ELSE IF lo = hi THEN LoopBody(st, text[lo], lo)
    ELSE LET mid == (lo + hi) \div 2
             half == ForLoop(text, lo, mid, st)
         IN IF half.json_end # 0 THEN half ELSE ForLoop(text, mid + 1, hi, half)

\* the loop of _find_json_in_comment: the position of the brace that brings
\* the depth back to zero, 0 when the text ends first
ScanBraces(text, i, brace_count, in_string, escape_next) ==
    ForLoop(text, i, Len(text),
            [brace_count |-> brace_count, in_string |-> in_string,
             escape_next |-> escape_next, json_end |-> 0]).json_end

\* a loop body that counts braces without string or escape context
NaiveBody(st, char, i) ==
    IF char = "{" THEN [st EXCEPT !.brace_count = @ + 1]
    ELSE IF char = "}"
         THEN [st EXCEPT !.brace_count = @ - 1,
                         !.json_end = IF st.brace_count - 1 = 0 THEN i ELSE 0]
    ELSE st

RECURSIVE NaiveLoop(_, _, _, _)
NaiveLoop(text, lo, hi, st) ==
    IF lo > hi THEN st
    ELSE IF lo = hi THEN NaiveBody(st, text[lo], lo)
    ELSE LET mid == (lo + hi) \div 2
             half == NaiveLoop(text, lo, mid, st)
         IN IF half.json_end # 0 THEN half ELSE NaiveLoop(text, mid + 1, hi, half)

\* a scan that counts braces without string or escape context
ScanNaive(text, i, brace_count, in_string, escape_next) ==
    NaiveLoop(text, i, Len(text),
              [brace_count |-> brace_count, in_string |-> in_string,
               escape_next |-> escape_next, json_end |-> 0]).json_end

Scan(text, i, brace_count, in_string, escape_next) ==
    ScanBraces(text, i, brace_count, in_string, escape_next)

\* (json_str, start_pos, end_pos): start is the position of the start match
\* and end the position of the end marker that closes the comment
_find_json_in_comment(text) ==
    LET NotFound == [found |-> FALSE, json |-> <<>>, start |-> 0, end |-> 0]
        match == SearchStart(text, 1)
        json_start == SkipBlanks(text, match + 1)
        json_end == Scan(text, json_start, 0, FALSE, FALSE)
        rest == SkipBlanks(text, json_end + 1)
    IN  IF match = 0 THEN NotFound
        ELSE IF json_end = 0 THEN NotFound
        ELSE IF ~(rest <= Len(text) /\ text[rest] = "E") THEN NotFound
        ELSE [found |-> TRUE, json |-> SubSeq(text, json_start, json_end),
              start |-> match, end |-> rest]

RECURSIVE lstrip(_)
lstrip(text) ==
    IF text # <<>> /\ Head(text) \in Blanks THEN lstrip(Tail(text)) ELSE text

RECURSIVE rstrip(_)
rstrip(text) ==
    IF text # <<>> /\ text[Len(text)] \in Blanks
    THEN rstrip(SubSeq(text, 1, Len(text) - 1))
    ELSE text

meta_comment(t, include_segments) ==
    <<"S", " ">> \o Dumps(_build_metadata(t, include_segments)) \o <<" ", "E">>

Positions == {"top", "bottom"}

\* the document embed_in_skill returns
Embedded(skill_md, t, include_segments, position) ==
    LET comment == meta_comment(t, include_segments)
        f == _find_json_in_comment(skill_md)
    IN  IF f.found
        THEN SubSeq(skill_md, 1, f.start - 1) \o comment
             \o SubSeq(skill_md, f.end + 1, Len(skill_md))
        ELSE IF position = "bottom"
             THEN rstrip(skill_md) \o <<"\n", "\n">> \o comment \o <<"\n">>
             ELSE comment \o <<"\n", "\n">> \o lstrip(skill_md)

\* the template extract_from_skill returns, NoSkillTemplate for None
Extracted(skill_md) ==
    LET f == _find_json_in_comment(skill_md)
        metadata == Loads(f.json)
    IN  IF ~f.found THEN NoSkillTemplate
        ELSE IF Falsy(metadata.id) \/ Falsy(metadata.version) THEN NoSkillTemplate
        ELSE [found |-> TRUE, id |-> metadata.id,
              version |-> metadata.version,
              segments |-> IF metadata.has_segments
                           THEN [i \in DOMAIN metadata.segments |->
                                   from_dict(metadata.segments[i])]
                           ELSE <<>>,
              name |-> metadata.name, description |-> metadata.description]

\* skill: the document, the embedder's include_segments, and the last
\* embed_in_skill call (its template, its position, whether it replaced a
\* comment); marked says the first document held a start marker
NoSkill ==
    [md |-> <<>>, include_segments |-> FALSE, t |-> NoSkillTemplate,
     position |-> "none", replaced |-> FALSE, marked |-> FALSE]
NoExtracted == [op |-> "none", value |-> NoSkillTemplate]

embed_in_skill(t, position) ==
    /\ Cardinality({i \in DOMAIN skill.md : skill.md[i] = "S"}) <= MaxStarts
    /\ skill' = [skill EXCEPT
                   !.md = Embedded(skill.md, t, skill.include_segments,
                                   position),
                   !.t = t, !.position = position,
                   !.replaced = _find_json_in_comment(skill.md).found]
    /\ extracted' = NoExtracted
    /\ UNCHANGED <<nonTools, filled, report, exported, processed>>

extract_from_skill ==
    /\ extracted.op = "none"
    /\ extracted' = [op |-> "extract_from_skill",
                     value |-> Extracted(skill.md)]
    /\ UNCHANGED <<nonTools, filled, report, skill, exported, processed>>

\* ------------------------------------------------------------- _sanitize_label

\* A name is a sequence of characters: "a" is a letter LABEL_PATTERN keeps,
\* "_" the underscore, "!" a character LABEL_PATTERN replaces; the empty name
\* stands for "" and for None (both falsy).
NameChars == {"a", "_", "!"}
Names == UNION {[1..n -> NameChars] : n \in 0..MaxNameLen}
Entity == <<"E", "n", "t", "i", "t", "y">>
RELATED == <<"R", "E", "L", "A", "T", "E", "D">>

\* LABEL_PATTERN.sub("_", value)
Replaced(value) == [i \in DOMAIN value |-> IF value[i] = "!" THEN "_" ELSE value[i]]

\* re.sub(r"_+", "_", sanitized)
RECURSIVE Collapsed(_)
Collapsed(value) ==
    IF Len(value) < 2 THEN value
    ELSE IF value[1] = "_" /\ value[2] = "_" THEN Collapsed(Tail(value))
    ELSE <<Head(value)>> \o Collapsed(Tail(value))

\* sanitized.strip("_")
RECURSIVE Stripped(_)
Stripped(value) ==
    IF value # <<>> /\ Head(value) = "_" THEN Stripped(Tail(value))
    ELSE IF value # <<>> /\ value[Len(value)] = "_"
         THEN Stripped(SubSeq(value, 1, Len(value) - 1))
    ELSE value

\* _sanitize_label(value): "Entity" for a falsy value and for a value of which
\* nothing is left, whatever the caller's default was
_sanitize_label(value) ==
    IF value = <<>> THEN Entity
    ELSE IF Stripped(Collapsed(Replaced(value))) = <<>> THEN Entity
    ELSE Stripped(Collapsed(Replaced(value)))

\* value or default
Or(value, default) == IF value = <<>> THEN default ELSE value

NoLabel == [op |-> "none", kind |-> "", name |-> <<>>, label |-> <<>>]

\* _write_entity builds its query with _sanitize_label(entity.label or "Entity")
\* and _write_relationship with _sanitize_label(rel.type or "RELATED")
WriteLabel ==
    /\ labelled.op = "given"
    /\ labelled' = [labelled EXCEPT
                      !.op = "written",
                      !.label = IF labelled.kind = "entity"
                                THEN _sanitize_label(Or(labelled.name, Entity))
                                ELSE _sanitize_label(Or(labelled.name, RELATED))]
    /\ UNCHANGED <<dsaVars, writerVars, registryVars, syncVars, toolVars, documents>>

\* ----------------------------------------------------- TemporalKnowledgeGraph

EntityIds == {"a", "b"}
EndpointIds == {"a", "b", "x"}

\* kg.entities (each TemporalEntity with its id, a name that is not its id, and
\* a label) and kg.relationships (source_id, target_id); a merge of two graphs
\* concatenates their lists without de-duplication
KgEntities ==
    UNION {[1..n -> [id : EntityIds, name : {"N"}, type : {"Person"}]] :
             n \in 0..MaxKgItems}
KgRelationships ==
    UNION {[1..n -> [source_id : EndpointIds, target_id : EndpointIds]] :
             n \in 0..MaxKgItems}

\* entity.to_node()
to_node(entity) == [id |-> entity.id, type |-> entity.type, name |-> entity.name]

\* Node(id=..., type="entity", properties={"name": id})
StubNode(id) == [id |-> id, type |-> "entity", name |-> id]

\* the relationship loop: both endpoints are looked up in entity_map before
\* either placeholder is added
RECURSIVE RelationshipLoop(_, _, _)
RelationshipLoop(rels, entity_map, out) ==
    IF rels = <<>> THEN out
    ELSE LET rel == Head(rels)
             noSource == rel.source_id \notin entity_map
             noTarget == rel.target_id \notin entity_map
         IN RelationshipLoop(
                Tail(rels),
                entity_map \cup {rel.source_id, rel.target_id},
                out
                \o (IF noSource THEN <<StubNode(rel.source_id)>> ELSE <<>>)
                \o (IF noTarget THEN <<StubNode(rel.target_id)>> ELSE <<>>))

\* the node lists of the documents to_graph_documents returns
to_graph_documents(entities, relationships) ==
    IF entities = <<>> /\ relationships = <<>> THEN <<>>
    ELSE <<RelationshipLoop(relationships,
                            {entities[i].id : i \in DOMAIN entities},
                            [i \in DOMAIN entities |-> to_node(entities[i])])>>

NoDocuments == [op |-> "none", entities |-> <<>>, relationships |-> <<>>,
                docs |-> <<>>]

ToGraphDocuments ==
    /\ documents.op = "given"
    /\ documents' = [documents EXCEPT
                       !.op = "returned",
                       !.docs = to_graph_documents(documents.entities,
                                                   documents.relationships)]
    /\ UNCHANGED <<dsaVars, writerVars, registryVars, syncVars, toolVars, labelled>>

\* ---------------------------------------------------------- specifications

\* no filler, migrator, embedder, exporter or summarizer call has been made
InitTools ==
    /\ filled = NoFill
    /\ report = NoReport
    /\ skill = NoSkill
    /\ extracted = NoExtracted
    /\ exported = NoExported
    /\ processed = NoProcessed
    /\ labelled = NoLabel
    /\ documents = NoDocuments

\* the state after construction, all but the configuration
InitStore ==
    /\ now = 0
    /\ community = [c \in Communities |->
                      [full_content |-> <<>>, last_compacted_at |-> -1,
                       summary_tokens |-> 0]]
    /\ delta = [d \in DeltaIds |-> NoDelta]
    /\ pc = [p \in Procs |-> "idle"]
    /\ sel = [p \in Procs |-> NoSel]
    /\ rows = [p \in Procs |-> {}]
    /\ sweep = NoSweep
    /\ result = NoResult

\* the settings as shipped
DefaultConfig ==
    /\ DSA_ENABLED = TRUE
    /\ DSA_COMPACTION_ENABLED = TRUE
    /\ delta_count_threshold = ThresholdOr(0, DSA_DELTA_COUNT_THRESHOLD)
    /\ delta_token_threshold = ThresholdOr(0, DSA_DELTA_TOKEN_THRESHOLD)

\* SpecDSA: deltas are stored and read while two callers run
\* compact_community and a scheduler runs cleanup; default thresholds.
InitDSA ==
    /\ InitWriter
    /\ InitRegistry
    /\ InitSync
    /\ InitTools
    /\ DSA_ENABLED = TRUE
    /\ DSA_COMPACTION_ENABLED \in BOOLEAN
    /\ delta_count_threshold = ThresholdOr(0, DSA_DELTA_COUNT_THRESHOLD)
    /\ delta_token_threshold = ThresholdOr(0, DSA_DELTA_TOKEN_THRESHOLD)
    /\ InitStore

NextDSA ==
    \/ \E c \in Communities, tok \in TokenChoices, e \in BOOLEAN, t \in BOOLEAN :
          store_delta(c, tok, e, t)
    \/ \E c \in Communities : ReadSummary(c)
    \/ \E p \in Procs, c \in Communities : CompactSelect(p, c)
    \/ \E p \in Procs, t \in BOOLEAN : CompactCommit(p, t)
    \/ \E n \in DayArgs : cleanup_compacted_deltas(n)
    \/ Tick

SpecDSA == InitDSA /\ [][NextDSA]_vars

\* SpecSweep: deltas are stored while p1 runs compact_all() and p2 calls
\* compact_community, under every configuration of flags and thresholds.
InitSweep ==
    /\ DSA_ENABLED \in BOOLEAN
    /\ DSA_COMPACTION_ENABLED \in BOOLEAN
    /\ \E a \in CountArgs :
          delta_count_threshold = ThresholdOr(a, DSA_DELTA_COUNT_THRESHOLD)
    /\ \E a \in TokenArgs :
          delta_token_threshold = ThresholdOr(a, DSA_DELTA_TOKEN_THRESHOLD)
    /\ InitStore
    /\ InitWriter
    /\ InitRegistry
    /\ InitSync
    /\ InitTools

NextSweep ==
    \/ \E c \in Communities, tok \in TokenChoices, e \in BOOLEAN, t \in BOOLEAN :
          store_delta(c, tok, e, t)
    \/ CompactAllScan("p1")
    \/ \E c \in Communities : CompactSelect("p1", c) /\ pc["p1"] = "sweep"
    \/ \E c \in Communities : CompactSelect("p2", c)
    \/ \E p \in Procs, t \in BOOLEAN : CompactCommit(p, t)

SpecSweep == InitSweep /\ [][NextSweep]_vars

\* SpecWriter: write_temporal_kg calls on one store, each returning before
\* the next starts.
InitSpecWriter ==
    /\ DefaultConfig
    /\ InitStore
    /\ InitWriter
    /\ InitRegistry
    /\ InitSync
    /\ InitTools

NextWriter ==
    \/ \E m \in 0..MaxEnts, n \in 0..MaxRels, bs \in BatchSizes, st \in Strategies :
          \E badE \in Throwing(m), badR \in Throwing(n) :
             write_temporal_kg(m, badE, n, badR, bs, st)
    \/ WriteReturn

SpecWriter == InitSpecWriter /\ [][NextWriter]_vars

\* SpecRegistry: register, get, delete and clear_cache calls on one registry
\* over one templates directory.
InitSpecRegistry ==
    /\ DefaultConfig
    /\ InitStore
    /\ InitWriter
    /\ InitRegistry
    /\ InitSync
    /\ InitTools

SpecRegistry == InitSpecRegistry /\ [][NextRegistry]_vars

\* SpecSync: one exporter runs export commands on one sync state file while
\* communities are rebuilt and deltas are stored; the communities sit at
\* any levels and DSA is on or off.
InitSpecSync ==
    /\ DSA_ENABLED \in BOOLEAN
    /\ DSA_COMPACTION_ENABLED = TRUE
    /\ delta_count_threshold = ThresholdOr(0, DSA_DELTA_COUNT_THRESHOLD)
    /\ delta_token_threshold = ThresholdOr(0, DSA_DELTA_TOKEN_THRESHOLD)
    /\ InitStore
    /\ InitWriter
    /\ InitRegistry
    /\ level \in {f \in [Communities -> Levels] : f["c1"] = 0}
    /\ updated_at = [c \in Communities |-> -1]
    /\ sync = NoSync
    /\ xp = NoExport
    /\ InitTools

SpecSync == InitSpecSync /\ [][NextSync]_vars

\* SpecFiller: fill calls on fillers with and without strict mode.
InitSpecFiller ==
    /\ DefaultConfig
    /\ InitStore
    /\ InitWriter
    /\ InitRegistry
    /\ InitSync
    /\ InitTools

NextFiller ==
    \E strict \in BOOLEAN, t \in FillSegments, raw \in [SegKeys -> RawKinds] :
       fill(strict, t, raw)

SpecFiller == InitSpecFiller /\ [][NextFiller]_vars

\* SpecMigrator: compare calls on pairs of templates.
NextMigrator ==
    \E old \in MigrSegments, new \in MigrSegments : compare(old, new)

SpecMigrator == InitSpecFiller /\ [][NextMigrator]_vars

\* SpecExporter: export is called directly, under either setting of
\* DSA_ENABLED and of the export configuration, on a graph where deltas are
\* stored and communities compacted between the exports.
InitSpecExporter ==
    /\ DSA_ENABLED \in BOOLEAN
    /\ DSA_COMPACTION_ENABLED = TRUE
    /\ delta_count_threshold = ThresholdOr(0, DSA_DELTA_COUNT_THRESHOLD)
    /\ delta_token_threshold = ThresholdOr(0, DSA_DELTA_TOKEN_THRESHOLD)
    /\ InitStore
    /\ InitWriter
    /\ InitRegistry
    /\ level \in {f \in [Communities -> Levels] : f["c1"] = 0}
    /\ updated_at = [c \in Communities |-> -1]
    /\ sync = NoSync
    /\ xp = NoExport
    /\ InitTools

NextExporter ==
    \/ \E c \in Communities : exported.op = "none" /\ store_delta(c, 1, FALSE, FALSE)
    \/ \E c \in Communities : exported.op = "none" /\ CompactSelect("p1", c)
    \/ exported.op = "none" /\ CompactCommit("p1", FALSE)
    \/ ExportReturn
    \/ \E mode \in Modes, l \in Levels, changed \in SUBSET Communities,
          include \in BOOLEAN, field \in SummaryFields :
          ExportCall(mode, l, changed, include, field)

SpecExporter == InitSpecExporter /\ [][NextExporter]_vars

\* SpecProcess: process_deltas calls, with DSA on or off, while time passes.
InitSpecProcess ==
    /\ DSA_ENABLED \in BOOLEAN
    /\ DSA_COMPACTION_ENABLED = TRUE
    /\ delta_count_threshold = ThresholdOr(0, DSA_DELTA_COUNT_THRESHOLD)
    /\ delta_token_threshold = ThresholdOr(0, DSA_DELTA_TOKEN_THRESHOLD)
    /\ InitStore
    /\ InitWriter
    /\ InitRegistry
    /\ InitSync
    /\ InitTools

NextProcess ==
    \/ \E targets \in TargetLists :
          \E outcome \in [1..Len(targets) -> Outcomes],
             toks \in [1..Len(targets) -> TokenChoices] :
             process_deltas(targets, outcome, toks)
    \/ Tick

SpecProcess == InitSpecProcess /\ [][NextProcess]_vars

\* SpecEmbedder: an embedder of either kind is given a document; embed_in_skill
\* is called on what the last call returned, extract_from_skill reads it.
InitSpecEmbedder ==
    /\ DefaultConfig
    /\ InitStore
    /\ InitWriter
    /\ InitRegistry
    /\ InitSync
    /\ filled = NoFill
    /\ report = NoReport
    /\ exported = NoExported
    /\ processed = NoProcessed
    /\ labelled = NoLabel
    /\ documents = NoDocuments
    /\ extracted = NoExtracted
    /\ \E md \in Docs, i \in BOOLEAN :
          skill = [NoSkill EXCEPT !.md = md, !.include_segments = i,
                                  !.marked = SearchStart(md, 1) # 0]

NextEmbedder ==
    \/ \E t \in SkillTemplates, position \in Positions : embed_in_skill(t, position)
    \/ extract_from_skill

SpecEmbedder == InitSpecEmbedder /\ [][NextEmbedder]_vars

\* SpecLabel: a name is handed to the writer as the label of an entity or as
\* the type of a relationship.
InitSpecLabel ==
    /\ DefaultConfig
    /\ InitStore
    /\ InitWriter
    /\ InitRegistry
    /\ InitSync
    /\ filled = NoFill
    /\ report = NoReport
    /\ skill = NoSkill
    /\ extracted = NoExtracted
    /\ exported = NoExported
    /\ processed = NoProcessed
    /\ documents = NoDocuments
    /\ \E k \in {"entity", "relationship"}, n \in Names :
          labelled = [NoLabel EXCEPT !.op = "given", !.kind = k, !.name = n]

SpecLabel == InitSpecLabel /\ [][WriteLabel]_vars

\* SpecDocuments: to_graph_documents is called on a knowledge graph.
InitSpecDocuments ==
    /\ DefaultConfig
    /\ InitStore
    /\ InitWriter
    /\ InitRegistry
    /\ InitSync
    /\ filled = NoFill
    /\ report = NoReport
    /\ skill = NoSkill
    /\ extracted = NoExtracted
    /\ exported = NoExported
    /\ processed = NoProcessed
    /\ labelled = NoLabel
    /\ \E e \in KgEntities, r \in KgRelationships :
          documents = [NoDocuments EXCEPT !.op = "given", !.entities = e,
                                          !.relationships = r]

SpecDocuments == InitSpecDocuments /\ [][ToGraphDocuments]_vars

\* ------------------------------------------------------------------ claims

\* C1: a delta stored for a community after compact_community's first query
\* and before its commit is left exactly as it was by the commit (still
\* pending), and a delta only becomes compacted in a commit whose merged
\* full_content carries its summary.
C1_StoredBetweenStaysPending ==
    [][/\ \A p \in Procs :
            (pc[p] = "selected" /\ pc'[p] # "selected") =>
               \A d \in DeltaIds :
                  (delta[d].cid = sel[p].cid /\ delta[d].status = "pending"
                     /\ d >= sel[p].next)
                  => delta'[d] = delta[d]
       /\ \A d \in DeltaIds :
            (delta[d].status = "pending" /\ delta'[d].status = "compacted")
            => DeltaTok(d) \in Range(community'[delta[d].cid].full_content)
      ]_vars

\* a compact_community call has committed while a delta stored after its
\* selection is pending
C1_Witness ==
    /\ result.op = "compact_community"
    /\ result.deltas # <<>>
    /\ \E d \in result.mid :
          delta[d].status = "pending" /\ d \notin Range(result.deltas)

\* C4 as stated: selection by check_compaction_needed and by compact_all
\* holds exactly when count > count threshold or tokens > token threshold.
C4_SelectedIffOverThreshold ==
    /\ \A c \in Communities :
          check_compaction_needed(c) <=>
             (PendingCount(c) > delta_count_threshold
                \/ PendingTokens(c) > delta_token_threshold)
    /\ result.op = "compact_all" =>
          \A c \in Communities :
             c \in result.sweep.selected <=>
                (result.sweep.pendingAt[c] > delta_count_threshold
                   \/ result.sweep.tokensAt[c] > delta_token_threshold)

\* C4 amended: with DSA_COMPACTION_ENABLED on, check_compaction_needed selects
\* a community iff count > count threshold or tokens > token threshold, and
\* with DSA_ENABLED on as well so does compact_all; with a flag off nothing is
\* selected; a count equal to the threshold with tokens not above theirs is
\* not selected.
C4_SelectedIffOverThresholdWhenEnabled ==
    /\ \A c \in Communities :
          check_compaction_needed(c) <=>
             (DSA_COMPACTION_ENABLED
                /\ (PendingCount(c) > delta_count_threshold
                      \/ PendingTokens(c) > delta_token_threshold))
    /\ result.op = "compact_all" =>
          \A c \in Communities :
             /\ c \in result.sweep.selected <=>
                   (DSA_ENABLED /\ DSA_COMPACTION_ENABLED
                      /\ (result.sweep.pendingAt[c] > delta_count_threshold
                            \/ result.sweep.tokensAt[c] > delta_token_threshold))
             /\ (result.sweep.pendingAt[c] = delta_count_threshold
                   /\ result.sweep.tokensAt[c] <= delta_token_threshold)
                => c \notin result.sweep.selected

\* compact_all has returned having selected one community and passed over
\* one whose pending count equals the count threshold
C4_Witness ==
    /\ result.op = "compact_all"
    /\ \E c \in Communities :
          /\ result.sweep.pendingAt[c] = delta_count_threshold
          /\ c \notin result.sweep.selected
          /\ ~check_compaction_needed(c)
    /\ \E c \in Communities :
          /\ c \in result.sweep.selected
          /\ result.sweep.pendingAt[c] > delta_count_threshold

\* C7: a read returns full_content followed by the community's pending
\* deltas and no others, each once, in created_at ascending order, the order
\* get_pending_deltas returned them in.
C7_ReadIsFullContentThenPending ==
    result.op = "read" =>
       LET c == result.cid
           base == community[c].full_content
           r == result.deltas
           t == result.text
           rest == SubSeq(t, Len(base) + 1, Len(t))
           bullets == SelectSeq(rest, LAMBDA x : x.k = "- ")
       IN /\ Range(r) = PendingOf(c)
          /\ Len(r) = Cardinality(PendingOf(c))
          /\ SortedByCreatedAt(r)
          /\ Len(t) >= Len(base)
          /\ SubSeq(t, 1, Len(base)) = base
          /\ Len(bullets) = Len(r)
          /\ \A i \in 1..Len(r) : bullets[i].d = r[i]
          /\ \A i \in 1..Len(rest) : rest[i].k = "- " \/ (i = 1 /\ rest[i] = HeaderTok)

\* a read of a compacted community that holds two pending deltas and a
\* compacted one
C7_Witness ==
    /\ result.op = "read"
    /\ Len(result.deltas) = 2
    /\ community[result.cid].full_content # <<>>
    /\ \E d \in DeltaIds : delta[d].cid = result.cid /\ delta[d].status = "compacted"

\* C8 as stated: a compacted delta is never changed again except by cleanup
\* deleting it, and never returns to pending.
C8_CompactedIsTerminal ==
    [][\A d \in DeltaIds :
          delta[d].status = "compacted" =>
             \/ delta'[d] = delta[d]
             \/ delta'[d] = [delta[d] EXCEPT !.status = "deleted"]
      ]_vars

\* C9 as stated: compact_all() with delta_count_threshold = 1 on c1 holding
\* one pending delta compacts c1 and leaves it no pending delta.
C9_ThresholdOneCompactsOneDelta ==
    (/\ result.op = "compact_all"
     /\ DSA_ENABLED /\ DSA_COMPACTION_ENABLED
     /\ delta_count_threshold = 1
     /\ result.sweep.pendingAt["c1"] = 1)
    => /\ "c1" \in result.sweep.compacted
       /\ community["c1"].full_content # <<>>
       /\ PendingOf("c1") = {}

\* C9 amended: compact_all() with delta_count_threshold = 1 passes over c1
\* while c1 holds one pending delta whose tokens are not above the token
\* threshold (no result for c1); it selects c1 once c1 holds two or more, and
\* a c1 in its results has a full_content.
C9_ThresholdOneNeedsTwoDeltas ==
    (/\ result.op = "compact_all"
     /\ DSA_ENABLED /\ DSA_COMPACTION_ENABLED
     /\ delta_count_threshold = 1)
    => /\ (result.sweep.pendingAt["c1"] = 1
             /\ result.sweep.tokensAt["c1"] <= delta_token_threshold)
          => ("c1" \notin result.sweep.selected /\ "c1" \notin result.sweep.compacted)
       /\ result.sweep.pendingAt["c1"] >= 2 => "c1" \in result.sweep.selected
       /\ "c1" \in result.sweep.compacted => community["c1"].full_content # <<>>

\* compact_all() with threshold 1 has returned, having passed over c1 with
\* its one pending delta, which is still pending
C9_Witness ==
    /\ result.op = "compact_all"
    /\ DSA_ENABLED /\ DSA_COMPACTION_ENABLED
    /\ delta_count_threshold = 1
    /\ result.sweep.pendingAt["c1"] = 1
    /\ "c1" \notin result.sweep.selected
    /\ PendingCount("c1") = 1
    /\ community["c1"].full_content = <<>>

\* s is a prefix of t
IsPrefix(s, t) == Len(s) <= Len(t) /\ SubSeq(t, 1, Len(s)) = s

\* what the writes of log carry for relationship k, in write order
RECURSIVE CarriedObs(_, _)
CarriedObs(k, log) ==
    IF log = <<>> THEN <<>>
    ELSE (IF RelItem(Head(log)).key = k THEN RelItem(Head(log)).t_obs ELSE <<>>)
         \o CarriedObs(k, Tail(log))

RECURSIVE CarriedFacts(_, _)
CarriedFacts(k, log) ==
    IF log = <<>> THEN <<>>
    ELSE (IF RelItem(Head(log)).key = k THEN RelItem(Head(log)).atomic_facts ELSE <<>>)
         \o CarriedFacts(k, Tail(log))

\* C2 as stated: after N update-mode writes of one (source, type, target) the
\* stored t_obs and atomic_facts have length >= N, and an update-mode call
\* leaves the earlier value a prefix of the later one.
C2_ListsAtLeastN ==
    [][(call.op = "none" /\ call'.op = "write" /\ call'.strategy = "update") =>
          \A k \in RelKeys :
             /\ Len(edges'[k].t_obs) >= updWrites'[k]
             /\ Len(edges'[k].atomic_facts) >= updWrites'[k]
             /\ IsPrefix(edges[k].t_obs, edges'[k].t_obs)
             /\ IsPrefix(edges[k].atomic_facts, edges'[k].atomic_facts)
      ]_vars

\* C2 amended: an update-mode call appends to the stored t_obs and
\* atomic_facts of a relationship whose endpoint nodes exist exactly the
\* lists its writes of that relationship carried, in write order (a write
\* carrying empty lists adds nothing), and changes nothing otherwise; the
\* earlier value is a prefix of the later one.
C2_ListsGrowByWhatWritesCarry ==
    [][(call.op = "none" /\ call'.op = "write" /\ call'.strategy = "update") =>
          \A k \in RelKeys :
             /\ IsPrefix(edges[k].t_obs, edges'[k].t_obs)
             /\ IsPrefix(edges[k].atomic_facts, edges'[k].atomic_facts)
             /\ Endpoints(k) \subseteq nodes' =>
                   /\ edges'[k].t_obs = edges[k].t_obs \o CarriedObs(k, call'.rels.log)
                   /\ edges'[k].atomic_facts =
                         edges[k].atomic_facts \o CarriedFacts(k, call'.rels.log)
             /\ ~(Endpoints(k) \subseteq nodes') => edges'[k] = edges[k]
      ]_vars

\* a second update-mode call has returned and a relationship that received
\* three update-mode writes holds three observations
C2_Witness ==
    /\ call.op = "write" /\ call.strategy = "update" /\ calls = 2
    /\ call.rels.log # <<>>
    /\ \E k \in RelKeys :
          /\ updWrites[k] >= 3
          /\ Len(edges[k].t_obs) >= 3
          /\ edges[k].t_obs # CarriedObs(k, call.rels.log)

\* C3 as stated: whatever the batch size and the throwing items, every
\* entity and relationship whose write does not throw is written, and the
\* throwing ones, and only they, are skipped.
C3_OnlyThrowingItemsSkipped ==
    call.op = "write" =>
       /\ \A i \in (1..call.m) \ call.badE :
             i \in Range(call.ents.log) /\ EntityId(i) \in nodes
       /\ \A i \in (1..call.n) \ call.badR : i \in Range(call.rels.log)
       /\ Range(call.ents.dropped) \subseteq call.badE
       /\ Range(call.rels.dropped) \subseteq call.badR

HighestRegistered(i) ==
    CHOOSE v \in VersionsOnDisk(i) :
        \A w \in VersionsOnDisk(i) :
            w = v \/ TupleLess(version_key(w), version_key(v))

\* C5 as stated: get_template(id) with version None returns the template of
\* the highest version registered for id, and None when there is none.
C5_GetLatestReturnsHighest ==
    (lookup.op = "get" /\ lookup.version = <<>>) =>
       IF VersionsOnDisk(lookup.id) = {} THEN lookup.ret = NoTemplate
       ELSE /\ lookup.ret.id = lookup.id
            /\ lookup.ret.version = HighestRegistered(lookup.id)

\* C6 as stated: a delta export that follows a full export of the same level
\* (of all its communities), the graph being as the full export found it,
\* reports no community pending and exports no page.
C6_DeltaAfterFullIsEmpty ==
    (xp.mode = "delta" /\ xp.afterFull)
    => (xp.changed = {} /\ xp.pages = {})

\* C12 as stated: once register_template has stored a template at
\* {id, version}, no later operation changes the content stored there; other
\* content only exists under another version.
C12_RegisteredContentNeverChanges ==
    [][\A k \in TemplateIds \X Versions :
          (files[k] # NoFile /\ files'[k] # NoFile) => files'[k] = files[k]
      ]_vars

\* C13 as stated: after delete_template(id, version) has returned True the
\* version directory is gone and no cache entry holds the deleted template,
\* and get_template(id, version) of a version that is not on disk returns None.
C13_DeleteEvictsTemplate ==
    /\ (lookup.op = "delete" /\ lookup.ok) =>
          /\ files[<<lookup.id, lookup.version>>] = NoFile
          /\ \A key \in CacheKeys :
                ~(_cache[key].id = lookup.id /\ _cache[key].version = lookup.version)
    /\ (lookup.op = "get" /\ lookup.version # <<>>
          /\ files[<<lookup.id, lookup.version>>] = NoFile)
       => lookup.ret = NoTemplate

\* C14 as stated: a fill by a filler in strict mode that produced a warning
\* has status failed.
C14_StrictWarningFails ==
    (filled.op = "fill" /\ filled.strict_mode /\ filled.warnings # <<>>)
    => filled.status = "failed"

\* C15 as stated: is_breaking holds exactly when a required segment of old
\* is absent from new or a segment of both went from not required to required.
C15_BreakingIffRemovedOrNowRequired ==
    report.op = "compare" =>
       (report.is_breaking <=>
          \/ \E i \in DOMAIN report.old :
                report.old[i].required /\ report.old[i].key \notin Keys(report.new)
          \/ \E i \in DOMAIN report.old : \E j \in DOMAIN report.new :
                /\ report.old[i].key = report.new[j].key
                /\ ~report.old[i].required /\ report.new[j].required)

\* C11 as stated: a delta-mode export has pages only for communities whose
\* ids are in changed_ids, whatever changed_ids is.
C11_DeltaExportsOnlyChanged ==
    (exported.op = "export" /\ exported.mode = "delta")
    => \A c \in Communities :
          exported.pages[c] # NoPage => c \in exported.changed_ids

\* C19 as stated: in full and in delta mode, a page carries the pending
\* deltas iff DSA is enabled and include_delta_summaries is set; its content
\* is then merge_summaries_for_read of the summary-field content and the
\* pending deltas, with has_pending_deltas and delta_count set.
C19_PageIsReadMerge ==
    exported.op = "export" =>
       \A c \in exported.ids :
          LET page == exported.pages[c]
              reads == {merge_summaries_for_read(page.base, r) :
                          r \in {o \in Orders(page.pending) : SortedByCreatedAt(o)}}
          IN IF DSA_ENABLED /\ exported.include_delta_summaries /\ page.pending # {}
             THEN /\ page.content \in reads
                  /\ page.has_pending_deltas
                  /\ page.delta_count = Cardinality(page.pending)
             ELSE page.content = page.base

\* C20: process_deltas returns one record for each delta node it created,
\* naming that node and its community, and creates a delta for every
\* community of targets that did not fail itself, whatever happened to the
\* others; with DSA disabled it creates none.
C20_OneRecordPerStoredDelta ==
    [][(processed'.op = "process_deltas" /\ <<delta, processed>>' # <<delta, processed>>)
       => LET created == {d \in DeltaIds :
                             delta[d].status = "none" /\ delta'[d].status # "none"}
              recs == processed'.records
          IN /\ {recs[i].delta_id : i \in DOMAIN recs} = created
             /\ Len(recs) = Cardinality(created)
             /\ \A i \in DOMAIN recs :
                   /\ delta'[recs[i].delta_id].cid = recs[i].community_id
                   /\ delta'[recs[i].delta_id].status = "pending"
             /\ \A d \in DeltaIds : d \notin created => delta'[d] = delta[d]
             /\ \A i \in DOMAIN processed'.targets :
                   (DSA_ENABLED /\ processed'.outcome[i] = "stored")
                   <=> \E j \in DOMAIN recs :
                          recs[j].community_id = processed'.targets[i]
      ]_vars

\* a call on two communities has stored the second one's delta after the
\* first one failed
C20_Witness ==
    /\ processed.op = "process_deltas"
    /\ Len(processed.targets) = 2
    /\ processed.outcome[1] # "stored"
    /\ Len(processed.records) = 1
    /\ processed.records[1].community_id = processed.targets[2]
    /\ delta[processed.records[1].delta_id].status = "pending"

\* C18 as stated: a read with at least one pending delta returns the base,
\* then the "[Recent Updates]:" separator, then one "- summary" entry per
\* delta, whatever the base.
C18_ReadAlwaysHasHeader ==
    (result.op = "read" /\ result.deltas # <<>>)
    => result.text = community[result.cid].full_content \o <<HeaderTok>>
                     \o [i \in 1..Len(result.deltas) |-> BulletTok(result.deltas[i])]

\* C16: extract_from_skill on what embed_in_skill(md, t) returned, the position
\* left at its default, gives a template with the id and the version of t,
\* and, on an embedder with include_segments, with the segments of t.
C16_ExtractAfterEmbedIsTemplate ==
    (extracted.op = "extract_from_skill" /\ skill.t.found
        /\ skill.position = "top")
    => /\ extracted.value.found
       /\ extracted.value.id = skill.t.id
       /\ extracted.value.version = skill.t.version
       /\ skill.include_segments
            => extracted.value.segments = skill.t.segments

\* the number of start markers in a text
CountStarts(text) == Cardinality({i \in DOMAIN text : text[i] = "S"})

C21_SweepLeavesBelowThresholdAlone ==
    [][\A p \in Procs : \A c \in Communities :
          (/\ sweep.by = p
           /\ pc[p] # pc'[p]
           /\ ~(sweep.pendingAt[c] > delta_count_threshold
                  \/ sweep.tokensAt[c] > delta_token_threshold))
          => /\ community'[c] = community[c]
             /\ \A d \in DeltaIds : delta[d].cid = c => delta'[d] = delta[d]
      ]_vars

\* compact_all() has returned, having compacted one community and passed over
\* another that still holds its pending deltas and has never been compacted
C21_Witness ==
    /\ result.op = "compact_all"
    /\ result.sweep.compacted # {}
    /\ \E c \in Communities :
          /\ c \notin result.sweep.selected
          /\ result.sweep.pendingAt[c] >= 1
          /\ PendingCount(c) >= result.sweep.pendingAt[c]
          /\ community[c].last_compacted_at = -1
          /\ \A d \in DeltaIds : delta[d].cid = c => delta[d].status = "pending"

\* C22: cleanup_compacted_deltas(n) deletes a delta only if its status is
\* compacted and its compacted_at stamp is more than n days before the call;
\* a pending delta and a delta compacted within the last n days stay.
C22_CleanupDeletesOnlyOldCompacted ==
    [][\A d \in DeltaIds :
          (Exists(d) /\ delta'[d] # delta[d]
             /\ result'.op = "cleanup_compacted_deltas")
          => /\ delta[d].status = "compacted"
             /\ delta[d].compacted_at < now - result'.days
             /\ delta'[d] = [delta[d] EXCEPT !.status = "deleted"]
      ]_vars

\* a cleanup has deleted a delta while a pending delta and a delta compacted
\* on the day of the call are still in the store
C22_Witness ==
    /\ result.op = "cleanup_compacted_deltas"
    /\ \E d \in DeltaIds : delta[d].status = "deleted"
    /\ \E d \in DeltaIds : delta[d].status = "pending"
    /\ \E d \in DeltaIds :
          delta[d].status = "compacted" /\ delta[d].compacted_at = now

C28_UpdateDuringExportStaysPending ==
    xp.pc = "idle" =>
       \A c \in xp.during :
          level[c] = xp.level => c \in get_pending_updates(xp.level)

\* C30 as stated: mark_synced for one level leaves the set
\* get_pending_updates reports for every other level as it was.
C30_OtherLevelPendingUnchanged ==
    [][(xp.pc = "exported" /\ xp'.pc = "idle")
       => \A l \in Levels \ {xp.level} :
             (get_pending_updates(l))' = get_pending_updates(l)
      ]_vars

\* C27 as stated: with compact_community runs for one community overlapping,
\* every compacted delta's summary is in the merge that produced the
\* community's current full_content (the merge input was the full_content
\* before it and the deltas handed to the LLM).
C27_CompactedIsInFullContent ==
    \A d \in DeltaIds :
       delta[d].status = "compacted"
       => DeltaTok(d) \in Range(community[delta[d].cid].full_content)

\* C24 as stated: when sanitization of a name leaves the empty string, a node
\* label is written as "Entity" and a relationship type as "RELATED".
C24_EmptyLabelDefaults ==
    (labelled.op = "written"
       /\ Stripped(Collapsed(Replaced(labelled.name))) = <<>>)
    => labelled.label = IF labelled.kind = "entity" THEN Entity ELSE RELATED

\* C25 as stated: for a non-empty KG, to_graph_documents returns one document
\* whose node list holds each entity id once and, for each relationship
\* endpoint id without an entity, one stub node with name = id and label
\* "entity", and no other node.
C25_OneNodePerId ==
    (documents.op = "returned"
       /\ (documents.entities # <<>> \/ documents.relationships # <<>>))
    => /\ Len(documents.docs) = 1
       /\ LET ns == documents.docs[1]
              entityIds == {documents.entities[i].id : i \in DOMAIN documents.entities}
              endpoints ==
                 UNION {{documents.relationships[i].source_id,
                         documents.relationships[i].target_id} :
                           i \in DOMAIN documents.relationships}
          IN /\ {ns[i].id : i \in DOMAIN ns} = entityIds \cup endpoints
             /\ \A i \in DOMAIN ns : \A j \in DOMAIN ns :
                   ns[i].id = ns[j].id => i = j
             /\ \A i \in DOMAIN ns :
                   ns[i].id \notin entityIds => ns[i] = StubNode(ns[i].id)

\* C26 as stated: within one write_temporal_kg call no entity and no
\* relationship of the KG is successfully written to the store more than once
\* (so one update-mode call appends a relationship's observations once).
C26_NoItemWrittenTwice ==
    call.op = "write"
    => /\ \A i \in DOMAIN call.ents.log : \A j \in DOMAIN call.ents.log :
             call.ents.log[i] = call.ents.log[j] => i = j
       /\ \A i \in DOMAIN call.rels.log : \A j \in DOMAIN call.rels.log :
             call.rels.log[i] = call.rels.log[j] => i = j

\* C29 as stated: the counts write_temporal_kg returns are the number of
\* distinct entities and the number of distinct relationships of the KG that
\* are in the store as a result of the call: an item that was not persisted
\* (a relationship without its endpoint nodes included) is not counted and no
\* item is counted twice.
C29_CountsArePersistedItems ==
    call.op = "write"
    => /\ call.ents.written =
             Cardinality({call.ents.log[i] : i \in DOMAIN call.ents.log})
       /\ call.rels.written =
             Cardinality({p \in {call.rels.log[i] : i \in DOMAIN call.rels.log} :
                            Endpoints(RelItem(p).key) \subseteq nodes})

====
